---- MODULE Spec2Model ----
(***************************************************************************)
(* Model of the translation bot in src/src/main.rs: the start-up sequence  *)
(* of main, the three backend client functions (get_languages,            *)
(* detect_language, translate) and the command handler answer, with one    *)
(* handler invocation per inbound message and the handlers interleaving    *)
(* at their await points.                                                  *)
(***************************************************************************)
EXTENDS Integers, Sequences, FiniteSets, TLC

\* Number of inbound messages (handler invocations) in a run.
MaxMsgs == 2

Msgs == 1..MaxMsgs

\* msg.chat.id of inbound message m: every message comes from its own chat.
chat_id(m) == m

\* The inputs of the commands: texts to detect, <<language, text>> pairs to
\* translate to, <<from_language, to_language, text>> triples to translate.
DetectInputs == {"Bonjour", "say \"hi\""}
TranslateToInputs == {<<"Spanish", "Bonjour">>, <<"xx", "hello">>}
TranslateFromToInputs ==
    {<<"French", "Spanish", "Bonjour">>, <<"xx", "French", "hello">>,
     <<"Spanish", "fr", "say \"hi\"">>}

(***************************************************************************)
(* Option and Result values.                                               *)
(***************************************************************************)
None == <<>>
Some(v) == <<v>>

Ok(v) == [kind |-> "Ok", val |-> v]
Err == [kind |-> "Err", val |-> "reqwest::Error"]
Panic == [kind |-> "Panic", val |-> "unwrap on None"]

(***************************************************************************)
(* serde_json::Value and the accessors the client functions use.           *)
(***************************************************************************)
JNull == [t |-> "null"]
JStr(s) == [t |-> "str", s |-> s]
JNum(n) == [t |-> "num", n |-> n]
JArr(e) == [t |-> "arr", e |-> e]
JObj(f) == [t |-> "obj", f |-> f]

\* value["key"]: Null unless value is an object holding the key.
Key(v, k) == IF v.t = "obj" /\ k \in DOMAIN v.f THEN v.f[k] ELSE JNull

\* value[i]: Null unless value is an array longer than i (0-based).
Idx(v, i) == IF v.t = "arr" /\ i < Len(v.e) THEN v.e[i + 1] ELSE JNull

as_str(v) == IF v.t = "str" THEN Some(v.s) ELSE None

as_array(v) == IF v.t = "arr" THEN Some(v.e) ELSE None

(***************************************************************************)
(* HTTP exchanges.  An exchange either fails in the network or yields a    *)
(* status and a body; a body is a JSON value or text that is not JSON.     *)
(***************************************************************************)
NotJson == [t |-> "notjson"]

NetFail == [net |-> "fail", status |-> 0, body |-> NotJson]
Http(status, body) == [net |-> "ok", status |-> status, body |-> body]

\* client.post(..).send().await? : only a transport failure is an error,
\* the status of the response is not looked at.
send(resp) == IF resp.net = "fail" THEN Err ELSE Ok(resp)

\* resp.json().await? : an error when the body does not parse as JSON.
json(resp) == IF resp.body.t = "notjson" THEN Err ELSE Ok(resp.body)

ErrorBody == JObj([error |-> JObj([code |-> JNum(401)])])

DetectBody(lang) ==
    JObj([data |-> JObj([detections |->
        JArr(<< JArr(<< JObj([language |-> lang]) >>) >>)])])

TranslateBody(item) ==
    JObj([data |-> JObj([translations |-> JArr(<< item >>)])])

LanguagesBody(items) ==
    JObj([data |-> JObj([languages |-> JArr(items)])])

LangItem(name, code) == JObj([name |-> JStr(name), language |-> JStr(code)])

\* Responses the backend can give to a detect request.
DetectResponses == <<
    NetFail,
    Http(200, DetectBody(JStr("fr"))),
    Http(200, NotJson),
    Http(200, JObj([data |-> JObj([detections |-> JArr(<<>>)])])),
    Http(401, ErrorBody),
    Http(500, NotJson) >>

\* Responses the backend can give to a translate request.
TranslateResponses == <<
    NetFail,
    Http(200, TranslateBody(JObj([translatedText |-> JStr("Hola")]))),
    Http(200, NotJson),
    Http(200, TranslateBody(JObj([detectedSourceLanguage |-> JStr("fr")]))),
    Http(200, JObj([data |-> JObj([translations |-> JArr(<<>>)])])),
    Http(401, ErrorBody) >>

\* Responses the backend can give to the start-up language list request.
LanguagesResponses == <<
    NetFail,
    Http(200, LanguagesBody(<<>>)),
    Http(200, LanguagesBody(<< LangItem("French", "fr"),
                               LangItem("Spanish", "es") >>)),
    Http(200, LanguagesBody(<< LangItem("French", "fr"),
                               LangItem("French", "fr-CA"),
                               LangItem("fr", "fr-FR") >>)),
    Http(200, LanguagesBody(<< JObj([language |-> JStr("fr")]) >>)),
    Http(200, NotJson),
    Http(403, ErrorBody) >>

(***************************************************************************)
(* Backend client functions, as functions of the response received.        *)
(***************************************************************************)
\* HashMap insert: a later pair with the same key replaces the earlier one.
Insert(m, k, v) == [x \in DOMAIN m \cup {k} |-> IF x = k THEN v ELSE m[x]]

EmptyMap == [x \in {} |-> ""]

RECURSIVE collect(_, _)
collect(items, m) ==
    IF items = <<>> THEN Ok(m)
    ELSE LET item == Head(items)
             name == as_str(Key(item, "name"))
             code == as_str(Key(item, "language"))
         IN IF name = None \/ code = None THEN Panic
            ELSE collect(Tail(items), Insert(m, name[1], code[1]))

get_languages(resp) ==
    IF send(resp).kind = "Err" THEN Err
    ELSE IF json(resp).kind = "Err" THEN Err
    ELSE LET resp_json == json(resp).val
             arr == as_array(Key(Key(resp_json, "data"), "languages"))
         IN IF arr = None THEN Panic ELSE collect(arr[1], EmptyMap)

detect_language(resp) ==
    IF send(resp).kind = "Err" THEN Err
    ELSE IF json(resp).kind = "Err" THEN Err
    ELSE LET resp_json == json(resp).val
             s == as_str(Key(Idx(Idx(Key(Key(resp_json, "data"),
                        "detections"), 0), 0), "language"))
         IN IF s = None THEN Panic ELSE Ok(s[1])

\* A plausible slip: the field is unwrapped as in detect_language.
translate_unwrap(resp) ==
    IF send(resp).kind = "Err" THEN Err
    ELSE IF json(resp).kind = "Err" THEN Err
    ELSE LET resp_json == json(resp).val
             s == as_str(Key(Idx(Key(Key(resp_json, "data"),
                        "translations"), 0), "translatedText"))
         IN IF s = None THEN Panic ELSE Ok(s[1])

\* A plausible slip: the missing field is treated like every other failure.
translate_strict(resp) ==
    IF send(resp).kind = "Err" THEN Err
    ELSE IF json(resp).kind = "Err" THEN Err
    ELSE LET resp_json == json(resp).val
             s == as_str(Key(Idx(Key(Key(resp_json, "data"),
                        "translations"), 0), "translatedText"))
         IN IF s = None THEN Err ELSE Ok(s[1])

translate(resp) ==
    IF send(resp).kind = "Err" THEN Err
    ELSE IF json(resp).kind = "Err" THEN Err
    ELSE LET resp_json == json(resp).val
             s == as_str(Key(Idx(Key(Key(resp_json, "data"),
                        "translations"), 0), "translatedText"))
         IN IF s = None THEN Ok("<error>") ELSE Ok(s[1])

\* Body of the detect request: the text is pasted between the quotes.
detect_request(text) == "{\"q\": \"" \o text \o "\"}"

\* Body of the translate request, built with serde_json::json!.
translate_request(from, to, text) ==
    [q |-> text, source |-> from, target |-> to, format |-> "text"]

(***************************************************************************)
(* Environment and credentials.                                            *)
(***************************************************************************)
Env(auth, project, bot_token) ==
    [GCP_AUTH |-> auth, GCP_PROJECT |-> project, TELOXIDE_TOKEN |-> bot_token]

Envs == <<
    Env(Some("token"), Some("project"), Some("bot")),
    Env(None, Some("project"), Some("bot")),
    Env(Some("token"), None, Some("bot")),
    Env(Some("token"), Some("project"), None) >>

load_auth_from_env(e) ==
    IF e.GCP_AUTH = None \/ e.GCP_PROJECT = None THEN Panic
    ELSE Ok([token |-> e.GCP_AUTH[1], project |-> e.GCP_PROJECT[1]])

(***************************************************************************)
(* Commands.                                                               *)
(***************************************************************************)
Cmd(kind, from, to, text) ==
    [kind |-> kind, from_language |-> from, language |-> to, text |-> text]

NoCommand == Cmd("None", "", "", "")

\* Command::descriptions(): the text generated from the descriptions.
descriptions ==
    "These commands are supported:\n\n"
    \o "/help - Display this text.\n"
    \o "/languages - Get list of supported languages.\n"
    \o "/detectlanguage - Detect language.\n"
    \o "/translateto - Translates text into given language. Input language is autodetected.\n"
    \o "/translatefromto - Translates text from given language into given language."

\* A plausible slip: unwrap_or_default() in place of unwrap_or(token).
resolve_or_default(dir, token) == IF token \in DOMAIN dir THEN dir[token] ELSE ""

\* LANGUAGES.get().unwrap().get(&token).cloned().unwrap_or(token)
resolve(dir, token) == IF token \in DOMAIN dir THEN dir[token] ELSE token

\* The orders in which a HashMap may iterate over its keys.
Orders(S) == {o \in [1..Cardinality(S) -> S] : \A k \in S : \E i \in DOMAIN o : o[i] = k}

\* A plausible slip: the values of the map are listed instead of its keys.
keys_values(dir) == {[i \in DOMAIN o |-> dir[o[i]]] : o \in Orders(DOMAIN dir)}

\* LANGUAGES.get().unwrap().keys().into_iter().collect::<Vec<_>>()
keys(dir) == Orders(DOMAIN dir)

RECURSIVE join(_)
join(names) ==
    IF names = <<>> THEN ""
    ELSE IF Len(names) = 1 THEN "\"" \o names[1] \o "\""
    ELSE "\"" \o names[1] \o "\", " \o join(Tail(names))

\* format!("{:?}", vec) of a vector of strings.
debug_fmt(names) == "[" \o join(names) \o "]"

VARIABLES
    env,        \* the process environment main starts in
    mainpc,     \* where main is: "boot", "fetching", "serving", "aborted"
    CLIENT,     \* OnceCell: None or Some(client)
    AUTH,       \* OnceCell: None or Some(Auth)
    LANGUAGES,  \* OnceCell: None or Some(name -> code map)
    fetch,      \* the get_languages call of main: its response and outcome
    pc,         \* per message: where its handler is
    msg,        \* per message: the chat it came from
    cmd,        \* per message: the parsed command
    to_lang,    \* per message: local to_lang of answer
    from_lang,  \* per message: local from_lang of answer
    calls,      \* per message: backend calls made, with response and result
    sent        \* per message: bot.send_message calls made

vars == <<env, mainpc, CLIENT, AUTH, LANGUAGES, fetch,
          pc, msg, cmd, to_lang, from_lang, calls, sent>>

mainvars == <<env, mainpc, CLIENT, AUTH, LANGUAGES, fetch>>

\* The get_languages call of main before it has returned.
NotFetched == [resp |-> [net |-> "pending", status |-> 0,
                         body |-> [t |-> "notjson"]],
               outcome |-> "Pending"]
taskvars == <<pc, msg, cmd, to_lang, from_lang, calls, sent>>

Init ==
    /\ \E i \in 1..Len(Envs) : env = Envs[i]
    /\ mainpc = "boot"
    /\ CLIENT = None
    /\ AUTH = None
    /\ LANGUAGES = None
    /\ fetch = NotFetched
    /\ pc = [m \in Msgs |-> "idle"]
    /\ msg = [m \in Msgs |-> 0]
    /\ cmd = [m \in Msgs |-> NoCommand]
    /\ to_lang = [m \in Msgs |-> ""]
    /\ from_lang = [m \in Msgs |-> ""]
    /\ calls = [m \in Msgs |-> <<>>]
    /\ sent = [m \in Msgs |-> <<>>]

(***************************************************************************)
(* main                                                                    *)
(***************************************************************************)
\* main up to the await of get_languages: the client and the credentials.
MainLoadAuth ==
    /\ mainpc = "boot"
    /\ CLIENT' = Some("client")
    /\ LET auth == load_auth_from_env(env)
       IN IF auth.kind = "Panic"
          THEN /\ mainpc' = "aborted"
               /\ AUTH' = AUTH
          ELSE /\ mainpc' = "fetching"
               /\ AUTH' = Some(auth.val)
    /\ UNCHANGED <<env, LANGUAGES, fetch, taskvars>>

\* Bot::from_env(): panics when the bot token is not in the environment.
from_env(e) == IF e.TELOXIDE_TOKEN = None THEN Panic ELSE Ok("bot")

\* A plausible slip: unwrap_or_default() on the result of get_languages, so
\* that a failed fetch starts the bot with an empty directory.
MainGetLanguages_or_default ==
    /\ mainpc = "fetching"
    /\ \E i \in 1..Len(LanguagesResponses) :
         LET languages == get_languages(LanguagesResponses[i])
         IN /\ fetch' = [resp |-> LanguagesResponses[i], outcome |-> languages.kind]
            /\ LANGUAGES' = IF languages.kind = "Ok"
                            THEN Some(languages.val) ELSE Some(EmptyMap)
            /\ mainpc' = IF from_env(env).kind = "Ok"
                         THEN "serving" ELSE "aborted"
    /\ UNCHANGED <<env, CLIENT, AUTH, taskvars>>

\* get_languages returns; main unwraps it, sets LANGUAGES, makes the bot and
\* starts repl.
MainGetLanguages ==
    /\ mainpc = "fetching"
    /\ \E i \in 1..Len(LanguagesResponses) :
         LET languages == get_languages(LanguagesResponses[i])
         IN /\ fetch' = [resp |-> LanguagesResponses[i], outcome |-> languages.kind]
            /\ IF languages.kind = "Ok"
               THEN /\ LANGUAGES' = Some(languages.val)
                    /\ mainpc' = IF from_env(env).kind = "Ok"
                                 THEN "serving" ELSE "aborted"
               ELSE /\ LANGUAGES' = LANGUAGES
                    /\ mainpc' = "aborted"
    /\ UNCHANGED <<env, CLIENT, AUTH, taskvars>>

(***************************************************************************)
(* answer                                                                  *)
(***************************************************************************)
Pending == [kind |-> "Pending", val |-> ""]
NoResponse == [net |-> "pending", status |-> 0, body |-> NotJson]

\* A backend call that has been issued and not yet returned.
Call(op, args, request) ==
    [op |-> op, args |-> args, request |-> request,
     resp |-> NoResponse, result |-> Pending]

\* The last call of message m, completed with its response and result.
Returned(m, resp, result) ==
    [calls[m] EXCEPT ![Len(calls[m])] =
        [@ EXCEPT !.resp = resp, !.result = result]]

DetectCall(text) == Call("detect", <<text>>, detect_request(text))

TranslateCall(from, to, text) ==
    Call("translate", <<from, to, text>>, translate_request(from, to, text))

\* A plausible slip: the chat to reply to is one cell shared by all handlers,
\* holding the chat of the message dispatched last.
SendMessage_shared_chat(m, chat, text) ==
    LET last == CHOOSE n \in Msgs :
                    \A k \in Msgs : (pc[k] # "idle" \/ k = m) => k <= n
    IN /\ sent' = [sent EXCEPT ![m] =
             Append(@, [chat |-> chat_id(last), text |-> text])]
       /\ pc' = [pc EXCEPT ![m] = "done"]

\* bot.send_message(chat, text).await? followed by the end of answer: the
\* message is handed to the transport and answer returns what the send
\* returned, which changes nothing in the handler.
SendMessage(m, chat, text) ==
    /\ sent' = [sent EXCEPT ![m] = Append(@, [chat |-> chat, text |-> text])]
    /\ pc' = [pc EXCEPT ![m] = "done"]

\* repl hands message m, parsed as command c, to answer.
Dispatch(m, c) ==
    /\ mainpc = "serving"
    /\ pc[m] = "idle"
    /\ msg' = [msg EXCEPT ![m] = chat_id(m)]
    /\ cmd' = [cmd EXCEPT ![m] = c]

AnswerHelp(m) ==
    /\ Dispatch(m, Cmd("Help", "", "", ""))
    /\ SendMessage(m, chat_id(m), descriptions)
    /\ UNCHANGED <<mainvars, to_lang, from_lang, calls>>

AnswerLanguages(m) ==
    /\ Dispatch(m, Cmd("Languages", "", "", ""))
    /\ \E names \in keys(LANGUAGES[1]) :
          SendMessage(m, chat_id(m), debug_fmt(names))
    /\ UNCHANGED <<mainvars, to_lang, from_lang, calls>>

\* answer for DetectLanguage, up to the await of detect_language.
AnswerDetectLanguage(m) ==
    \E text \in DetectInputs :
        /\ Dispatch(m, Cmd("DetectLanguage", "", "", text))
        /\ calls' = [calls EXCEPT ![m] = Append(@, DetectCall(text))]
        /\ pc' = [pc EXCEPT ![m] = "detect"]
        /\ UNCHANGED <<mainvars, to_lang, from_lang, sent>>

\* A plausible slip: the resolved language is handed to detect_language.
AnswerTranslateTo_detects_language(m) ==
    \E in \in TranslateToInputs :
        LET language == in[1]
            text == in[2]
            to == resolve(LANGUAGES[1], language)
        IN /\ Dispatch(m, Cmd("TranslateTo", "", language, text))
           /\ to_lang' = [to_lang EXCEPT ![m] = to]
           /\ calls' = [calls EXCEPT ![m] = Append(@, DetectCall(to))]
           /\ pc' = [pc EXCEPT ![m] = "detect"]
           /\ UNCHANGED <<mainvars, from_lang, sent>>

\* A plausible slip: to_lang is one cell shared by all handlers (a static)
\* instead of a local of answer.
AnswerTranslateTo_shared_to_lang(m) ==
    \E in \in TranslateToInputs :
        LET language == in[1]
            text == in[2]
            to == resolve(LANGUAGES[1], language)
        IN /\ Dispatch(m, Cmd("TranslateTo", "", language, text))
           /\ to_lang' = [n \in Msgs |-> to]
           /\ calls' = [calls EXCEPT ![m] = Append(@, DetectCall(text))]
           /\ pc' = [pc EXCEPT ![m] = "detect"]
           /\ UNCHANGED <<mainvars, from_lang, sent>>

\* A plausible slip: a handler stores the code it resolved in the directory.
AnswerTranslateTo_caches(m) ==
    \E in \in TranslateToInputs :
        LET language == in[1]
            text == in[2]
            to == resolve(LANGUAGES[1], language)
        IN /\ Dispatch(m, Cmd("TranslateTo", "", language, text))
           /\ LANGUAGES' = Some(Insert(LANGUAGES[1], language, to))
           /\ to_lang' = [to_lang EXCEPT ![m] = to]
           /\ calls' = [calls EXCEPT ![m] = Append(@, DetectCall(text))]
           /\ pc' = [pc EXCEPT ![m] = "detect"]
           /\ UNCHANGED <<env, mainpc, CLIENT, AUTH, fetch, from_lang, sent>>

\* answer for TranslateTo, up to the await of detect_language.
AnswerTranslateTo(m) ==
    \E in \in TranslateToInputs :
        LET language == in[1]
            text == in[2]
        IN /\ Dispatch(m, Cmd("TranslateTo", "", language, text))
           /\ to_lang' = [to_lang EXCEPT ![m] = resolve(LANGUAGES[1], language)]
           /\ calls' = [calls EXCEPT ![m] = Append(@, DetectCall(text))]
           /\ pc' = [pc EXCEPT ![m] = "detect"]
           /\ UNCHANGED <<mainvars, from_lang, sent>>

\* answer for TranslateFromTo, up to the await of translate.
AnswerTranslateFromTo(m) ==
    \E in \in TranslateFromToInputs :
        LET from_language == in[1]
            to_language == in[2]
            text == in[3]
            from == resolve(LANGUAGES[1], from_language)
            to == resolve(LANGUAGES[1], to_language)
        IN /\ Dispatch(m, Cmd("TranslateFromTo", from_language, to_language, text))
           /\ from_lang' = [from_lang EXCEPT ![m] = from]
           /\ to_lang' = [to_lang EXCEPT ![m] = to]
           /\ calls' = [calls EXCEPT ![m] = Append(@, TranslateCall(from, to, text))]
           /\ pc' = [pc EXCEPT ![m] = "translate"]
           /\ UNCHANGED <<mainvars, sent>>

\* A plausible slip: the error itself is sent to the chat.
DetectLanguageReply_detail(result) == result.val

\* A plausible slip: the sentinel of translate is sent for a failed call.
TranslateFromToReply_sentinel(result) ==
    IF result.kind = "Ok" THEN result.val ELSE "<error>"

\* The match on the result of a backend call: the value on Ok, the fixed
\* text on Err.
DetectLanguageReply(result) ==
    IF result.kind = "Ok" THEN result.val ELSE "Internal error"

TranslateToReply(result) ==
    IF result.kind = "Ok" THEN result.val ELSE "Internal error"

TranslateFromToReply(result) ==
    IF result.kind = "Ok" THEN result.val ELSE "Internal error"

\* DetectLanguage: detect_language returns (or panics) and answer replies.
DetectLanguageReturns(m) ==
    /\ pc[m] = "detect"
    /\ cmd[m].kind = "DetectLanguage"
    /\ \E i \in 1..Len(DetectResponses) :
         LET resp == DetectResponses[i]
             result == detect_language(resp)
         IN /\ calls' = [calls EXCEPT ![m] = Returned(m, resp, result)]
            /\ IF result.kind = "Panic"
               THEN /\ pc' = [pc EXCEPT ![m] = "panicked"]
                    /\ UNCHANGED sent
               ELSE SendMessage(m, msg[m], DetectLanguageReply(result))
    /\ UNCHANGED <<mainvars, msg, cmd, to_lang, from_lang>>

\* A plausible slip: the detected code is looked up in the directory like the
\* tokens of the command.
TranslateToDetectReturns_resolves_detected(m) ==
    /\ pc[m] = "detect"
    /\ cmd[m].kind = "TranslateTo"
    /\ \E i \in 1..Len(DetectResponses) :
         LET resp == DetectResponses[i]
             result == detect_language(resp)
         IN CASE result.kind = "Panic" ->
                   /\ calls' = [calls EXCEPT ![m] = Returned(m, resp, result)]
                   /\ pc' = [pc EXCEPT ![m] = "panicked"]
                   /\ UNCHANGED <<from_lang, sent>>
              [] result.kind = "Err" ->
                   /\ calls' = [calls EXCEPT ![m] = Returned(m, resp, result)]
                   /\ SendMessage(m, msg[m], "Internal error")
                   /\ UNCHANGED from_lang
              [] result.kind = "Ok" ->
                   LET from == resolve(LANGUAGES[1], result.val)
                   IN /\ from_lang' = [from_lang EXCEPT ![m] = from]
                      /\ calls' = [calls EXCEPT ![m] =
                            Append(Returned(m, resp, result),
                                   TranslateCall(from, to_lang[m], cmd[m].text))]
                      /\ pc' = [pc EXCEPT ![m] = "translate"]
                      /\ UNCHANGED sent
    /\ UNCHANGED <<mainvars, msg, cmd, to_lang>>

\* A plausible slip: no return after the reply to a failed detection, so
\* that answer goes on to translate with an empty source language.
TranslateToDetectReturns_no_return(m) ==
    /\ pc[m] = "detect"
    /\ cmd[m].kind = "TranslateTo"
    /\ \E i \in 1..Len(DetectResponses) :
         LET resp == DetectResponses[i]
             result == detect_language(resp)
         IN CASE result.kind = "Panic" ->
                   /\ calls' = [calls EXCEPT ![m] = Returned(m, resp, result)]
                   /\ pc' = [pc EXCEPT ![m] = "panicked"]
                   /\ UNCHANGED <<from_lang, sent>>
              [] result.kind = "Err" ->
                   /\ sent' = [sent EXCEPT ![m] =
                         Append(@, [chat |-> msg[m], text |-> "Internal error"])]
                   /\ calls' = [calls EXCEPT ![m] =
                         Append(Returned(m, resp, result),
                                TranslateCall("", to_lang[m], cmd[m].text))]
                   /\ pc' = [pc EXCEPT ![m] = "translate"]
                   /\ UNCHANGED from_lang
              [] result.kind = "Ok" ->
                   /\ from_lang' = [from_lang EXCEPT ![m] = result.val]
                   /\ calls' = [calls EXCEPT ![m] =
                         Append(Returned(m, resp, result),
                                TranslateCall(result.val, to_lang[m], cmd[m].text))]
                   /\ pc' = [pc EXCEPT ![m] = "translate"]
                   /\ UNCHANGED sent
    /\ UNCHANGED <<mainvars, msg, cmd, to_lang>>

\* TranslateTo: detect_language returns (or panics); on Err answer replies
\* and returns, on Ok it goes on to the await of translate.
TranslateToDetectReturns(m) ==
    /\ pc[m] = "detect"
    /\ cmd[m].kind = "TranslateTo"
    /\ \E i \in 1..Len(DetectResponses) :
         LET resp == DetectResponses[i]
             result == detect_language(resp)
         IN CASE result.kind = "Panic" ->
                   /\ calls' = [calls EXCEPT ![m] = Returned(m, resp, result)]
                   /\ pc' = [pc EXCEPT ![m] = "panicked"]
                   /\ UNCHANGED <<from_lang, sent>>
              [] result.kind = "Err" ->
                   /\ calls' = [calls EXCEPT ![m] = Returned(m, resp, result)]
                   /\ SendMessage(m, msg[m], "Internal error")
                   /\ UNCHANGED from_lang
              [] result.kind = "Ok" ->
                   /\ from_lang' = [from_lang EXCEPT ![m] = result.val]
                   /\ calls' = [calls EXCEPT ![m] =
                         Append(Returned(m, resp, result),
                                TranslateCall(result.val, to_lang[m], cmd[m].text))]
                   /\ pc' = [pc EXCEPT ![m] = "translate"]
                   /\ UNCHANGED sent
    /\ UNCHANGED <<mainvars, msg, cmd, to_lang>>

\* TranslateTo: translate returns and answer replies.
TranslateToTranslateReturns(m) ==
    /\ pc[m] = "translate"
    /\ cmd[m].kind = "TranslateTo"
    /\ \E i \in 1..Len(TranslateResponses) :
         LET resp == TranslateResponses[i]
             result == translate(resp)
         IN /\ calls' = [calls EXCEPT ![m] = Returned(m, resp, result)]
            /\ SendMessage(m, msg[m], TranslateToReply(result))
    /\ UNCHANGED <<mainvars, msg, cmd, to_lang, from_lang>>

\* TranslateFromTo: translate returns and answer replies.
TranslateFromToReturns(m) ==
    /\ pc[m] = "translate"
    /\ cmd[m].kind = "TranslateFromTo"
    /\ \E i \in 1..Len(TranslateResponses) :
         LET resp == TranslateResponses[i]
             result == translate(resp)
         IN /\ calls' = [calls EXCEPT ![m] = Returned(m, resp, result)]
            /\ SendMessage(m, msg[m], TranslateFromToReply(result))
    /\ UNCHANGED <<mainvars, msg, cmd, to_lang, from_lang>>

Next ==
    \/ MainLoadAuth
    \/ MainGetLanguages
    \/ \E m \in Msgs : AnswerHelp(m)
    \/ \E m \in Msgs : AnswerLanguages(m)
    \/ \E m \in Msgs : AnswerDetectLanguage(m)
    \/ \E m \in Msgs : AnswerTranslateTo(m)
    \/ \E m \in Msgs : AnswerTranslateFromTo(m)
    \/ \E m \in Msgs : DetectLanguageReturns(m)
    \/ \E m \in Msgs : TranslateToDetectReturns(m)
    \/ \E m \in Msgs : TranslateToTranslateReturns(m)
    \/ \E m \in Msgs : TranslateFromToReturns(m)

Spec == Init /\ [][Next]_vars

(***************************************************************************)
(* Properties.                                                             *)
(***************************************************************************)
Directory == LANGUAGES[1]

Ended(m) == pc[m] \in {"done", "panicked"}

CallIds(m) == 1..Len(calls[m])

Completed(c) == c.result.kind # "Pending"

\* The code a token stands for: the mapped code of a key, else the token.
CodeOf(token) ==
    IF token \in DOMAIN Directory THEN Directory[token] ELSE token

OneReply(m, text) == sent[m] = << [chat |-> msg[m], text |-> text] >>

\* The string at data.detections[0][0].language, if the body has one.
DetectedLanguage(body) ==
    as_str(Key(Idx(Idx(Key(Key(body, "data"), "detections"), 0), 0), "language"))

\* The string at data.translations[0].translatedText, if the body has one.
TranslatedText(body) ==
    as_str(Key(Idx(Key(Key(body, "data"), "translations"), 0), "translatedText"))

ParsedJson(c) == c.resp.net = "ok" /\ c.resp.body.t # "notjson"

\* C1: every command handed to the dispatcher gets a reply: a handler that
\* has ended, however the backend behaved, has sent a message to the chat.
C1_EveryCommandAnswered ==
    \A m \in Msgs : Ended(m) => Len(sent[m]) >= 1

\* C2: when a detect or translate call of a command returned an error, the
\* command's only reply is the text "Internal error".
C2_ErrorGivesInternalError ==
    \A m \in Msgs : \A i \in CallIds(m) :
        calls[m][i].result.kind = "Err" => OneReply(m, "Internal error")

C2_Witness ==
    \E m, n \in Msgs :
        /\ \E i \in CallIds(m) :
              calls[m][i].op = "detect" /\ calls[m][i].result.kind = "Err"
        /\ \E i \in CallIds(n) :
              calls[n][i].op = "translate" /\ calls[n][i].result.kind = "Err"
        /\ pc[m] = "done" /\ pc[n] = "done"

\* C3: a detect response that parses as JSON but has no string at
\* data.detections[0][0].language does not crash the handler: the handler
\* completes and the reply is "Internal error".
C3_ShapeFailureRecovered ==
    \A m \in Msgs : \A i \in CallIds(m) :
        ( /\ calls[m][i].op = "detect"
          /\ ParsedJson(calls[m][i])
          /\ DetectedLanguage(calls[m][i].resp.body) = None )
        => pc[m] = "done" /\ OneReply(m, "Internal error")

\* C4: in every handling of TranslateTo the first backend call is a detect
\* call given the command's text, and a translate call only ever follows a
\* detect call that succeeded.
C4_DetectBeforeTranslate ==
    \A m \in Msgs : cmd[m].kind = "TranslateTo" =>
        /\ Len(calls[m]) >= 1
        /\ calls[m][1].op = "detect"
        /\ calls[m][1].args = << cmd[m].text >>
        /\ \A i \in CallIds(m) :
              calls[m][i].op = "translate" =>
                  i > 1 /\ calls[m][1].result.kind = "Ok"

C4_Witness ==
    \E m, n \in Msgs :
        /\ cmd[m].kind = "TranslateTo" /\ pc[m] = "done"
        /\ Len(calls[m]) = 2 /\ calls[m][2].op = "translate"
        /\ cmd[n].kind = "TranslateTo" /\ Ended(n)
        /\ Len(calls[n]) = 1 /\ calls[n][1].result.kind # "Ok"

\* C5: the codes TranslateTo and TranslateFromTo work with are the mapped
\* code for a token that is a key of the directory and the token itself
\* otherwise, and "Internal error" is only ever replied after a backend call
\* returned an error.
C5_Resolution ==
    \A m \in Msgs :
        /\ cmd[m].kind \in {"TranslateTo", "TranslateFromTo"} =>
              to_lang[m] = CodeOf(cmd[m].language)
        /\ cmd[m].kind = "TranslateFromTo" =>
              from_lang[m] = CodeOf(cmd[m].from_language)
        /\ ( /\ cmd[m].kind \in {"TranslateTo", "TranslateFromTo"}
             /\ Len(sent[m]) >= 1
             /\ sent[m][1].text = "Internal error" )
           => \E i \in CallIds(m) : calls[m][i].result.kind = "Err"

C5_Witness ==
    \E m, n \in Msgs :
        /\ cmd[m].kind = "TranslateFromTo" /\ pc[m] = "done"
        /\ cmd[m].from_language \in DOMAIN Directory
        /\ cmd[m].language \notin DOMAIN Directory
        /\ from_lang[m] # cmd[m].from_language
        /\ to_lang[m] = cmd[m].language
        /\ sent[m][1].text = "Hola"
        /\ cmd[n].kind = "TranslateTo" /\ pc[n] = "done"
        /\ cmd[n].language \notin DOMAIN Directory
        /\ sent[n][1].text = "Hola"

\* C6: TranslateFromTo makes exactly one backend call, a translate call
\* with the codes of its two tokens and its text, and replies the text the
\* call returned, or "Internal error" when the call returned an error.
C6_TranslateFromTo ==
    \A m \in Msgs : cmd[m].kind = "TranslateFromTo" =>
        /\ Len(calls[m]) = 1
        /\ calls[m][1].op = "translate"
        /\ calls[m][1].args = << CodeOf(cmd[m].from_language),
                                 CodeOf(cmd[m].language), cmd[m].text >>
        /\ Completed(calls[m][1]) =>
              /\ pc[m] = "done"
              /\ calls[m][1].result.kind = "Err" => OneReply(m, "Internal error")
              /\ calls[m][1].result.kind = "Ok" => OneReply(m, calls[m][1].result.val)
              /\ ( /\ ParsedJson(calls[m][1])
                   /\ TranslatedText(calls[m][1].resp.body) # None )
                 => OneReply(m, TranslatedText(calls[m][1].resp.body)[1])

C6_Witness ==
    \E m, n \in Msgs :
        /\ cmd[m] = Cmd("TranslateFromTo", "French", "Spanish", "Bonjour")
        /\ Directory = [x \in {"French", "Spanish"} |->
                           IF x = "French" THEN "fr" ELSE "es"]
        /\ calls[m][1].args = << "fr", "es", "Bonjour" >>
        /\ OneReply(m, "Hola")
        /\ cmd[n].kind = "TranslateFromTo"
        /\ OneReply(n, "Internal error")

\* C7: when the response to a translate call parses as JSON but has no
\* string at data.translations[0].translatedText, the command completes
\* with the reply "<error>".
C7_MissingFieldGivesSentinel ==
    \A m \in Msgs : \A i \in CallIds(m) :
        ( /\ calls[m][i].op = "translate"
          /\ ParsedJson(calls[m][i])
          /\ TranslatedText(calls[m][i].resp.body) = None )
        => pc[m] = "done" /\ OneReply(m, "<error>")

C7_Witness ==
    \E m, n \in Msgs :
        /\ cmd[m].kind = "TranslateTo" /\ cmd[n].kind = "TranslateFromTo"
        /\ \A k \in {m, n} :
              /\ pc[k] = "done"
              /\ calls[k][Len(calls[k])].resp.status = 200
              /\ ParsedJson(calls[k][Len(calls[k])])
              /\ TranslatedText(calls[k][Len(calls[k])].resp.body) = None
              /\ OneReply(k, "<error>")

\* C8: a detect or translate call whose exchange failed in the network, got
\* a status outside 2xx or got a body that is not JSON returns an error, and
\* no command makes more than one call of each kind.
C8_FailedExchangeIsError ==
    \A m \in Msgs :
        /\ \A i \in CallIds(m) :
              ( /\ Completed(calls[m][i])
                /\ \/ calls[m][i].resp.net = "fail"
                   \/ calls[m][i].resp.status \notin 200..299
                   \/ calls[m][i].resp.body.t = "notjson" )
              => calls[m][i].result.kind = "Err"
        /\ \A i, j \in CallIds(m) : calls[m][i].op = calls[m][j].op => i = j

\* The texts that list every name of S once, separated by ", ".
RECURSIVE Listings(_)
Listings(S) ==
    IF S = {} THEN {""}
    ELSE UNION { { "\"" \o k \o "\"" \o (IF S = {k} THEN "" ELSE ", ") \o rest :
                     rest \in Listings(S \ {k}) } : k \in S }

\* C9: the reply to Languages lists the keys of the directory, each once and
\* nothing else, and the command makes no backend call and always replies.
C9_LanguagesListsKeys ==
    \A m \in Msgs : cmd[m].kind = "Languages" =>
        /\ pc[m] = "done"
        /\ calls[m] = <<>>
        /\ Len(sent[m]) = 1
        /\ sent[m][1].chat = msg[m]
        /\ sent[m][1].text \in
              { "[" \o l \o "]" : l \in Listings(DOMAIN Directory) }

C9_Witness ==
    \E m, n \in Msgs :
        /\ cmd[m].kind = "Languages" /\ cmd[n].kind = "Languages"
        /\ DOMAIN Directory = {"French", "Spanish"}
        /\ OneReply(m, "[\"French\", \"Spanish\"]")
        /\ OneReply(n, "[\"Spanish\", \"French\"]")

\* C10: a DetectLanguage command that has ended made exactly one backend
\* call, a detect call with its text, and replied the detected code when
\* the call succeeded and "Internal error" otherwise.
C10_DetectLanguage ==
    \A m \in Msgs : (cmd[m].kind = "DetectLanguage" /\ Ended(m)) =>
        /\ Len(calls[m]) = 1
        /\ calls[m][1].op = "detect"
        /\ calls[m][1].args = << cmd[m].text >>
        /\ OneReply(m, IF calls[m][1].result.kind = "Ok"
                       THEN calls[m][1].result.val ELSE "Internal error")

Untouched(m) == pc[m] = "idle" /\ calls[m] = <<>> /\ sent[m] = <<>>

\* C11: when a credential is missing from the environment or the language
\* list fetch of main failed, no command is ever handled: no handler has
\* started, made a backend call or sent a reply.
C11_NoServiceAfterStartupFailure ==
    ( \/ env.GCP_AUTH = None
      \/ env.GCP_PROJECT = None
      \/ fetch.outcome \in {"Err", "Panic"} )
    => /\ mainpc # "serving"
       /\ \A m \in Msgs : Untouched(m)

C11_Witness ==
    /\ AUTH # None
    /\ fetch.outcome = "Err"
    /\ mainpc = "aborted"
    /\ LANGUAGES = None

\* C12: no command causes more than one outbound message, the TranslateTo
\* whose detection failed included.
C12_AtMostOneReply ==
    \A m \in Msgs : Len(sent[m]) <= 1

C12_Witness ==
    \E m, n \in Msgs :
        /\ cmd[m].kind = "TranslateTo" /\ pc[m] = "done"
        /\ Len(calls[m]) = 1 /\ calls[m][1].result.kind = "Err"
        /\ Len(sent[m]) = 1
        /\ cmd[n].kind = "TranslateTo" /\ pc[n] = "done"
        /\ Len(calls[n]) = 2 /\ calls[n][2].result.kind = "Err"
        /\ Len(sent[n]) = 1

\* C13: the credentials and the directory, once set, never change; they are
\* only written while no command has been dispatched, and whenever a command
\* is or was being handled both are set.
C13_StaticsWrittenOnce ==
    [][ /\ AUTH # None => AUTH' = AUTH
        /\ LANGUAGES # None => LANGUAGES' = LANGUAGES
        /\ (AUTH' # AUTH \/ LANGUAGES' # LANGUAGES) =>
              /\ mainpc # "serving"
              /\ \A m \in Msgs : pc[m] = "idle" /\ pc'[m] = "idle"
        /\ \A m \in Msgs :
              pc'[m] # "idle" => AUTH' # None /\ LANGUAGES' # None ]_vars

C13_Witness ==
    \E m, n \in Msgs :
        /\ pc[m] = "translate" /\ pc[n] = "detect"
        /\ cmd[m].kind = "TranslateTo" /\ cmd[m].language = "xx"
        /\ AUTH = Some([token |-> "token", project |-> "project"])
        /\ LANGUAGES # None
        /\ "xx" \notin DOMAIN Directory

OpCount(m, op) == Cardinality({i \in CallIds(m) : calls[m][i].op = op})

\* C14: no call is retried: Help and Languages make no backend call,
\* DetectLanguage one detect call, TranslateFromTo one translate call,
\* TranslateTo at most one of each, and a call that failed is the last call
\* of its command, which then ends with its one reply.
C14_NoRetry ==
    \A m \in Msgs :
        /\ OpCount(m, "detect") <= 1
        /\ OpCount(m, "translate") <= 1
        /\ cmd[m].kind \in {"Help", "Languages"} => calls[m] = <<>>
        /\ cmd[m].kind = "DetectLanguage" =>
              OpCount(m, "detect") = 1 /\ OpCount(m, "translate") = 0
        /\ cmd[m].kind = "TranslateFromTo" =>
              OpCount(m, "detect") = 0 /\ OpCount(m, "translate") = 1
        /\ \A i \in CallIds(m) :
              (Completed(calls[m][i]) /\ calls[m][i].result.kind # "Ok") =>
                  /\ i = Len(calls[m])
                  /\ pc[m] = "done"
                  /\ Len(sent[m]) = 1

\* C15: the translate call of a TranslateTo whose detection succeeded gets
\* the code the detect response holds, as it is, the code of the command's
\* language token (the token itself when it is not a key of the directory)
\* and the command's text.
C15_TranslateToArguments ==
    \A m \in Msgs :
        (cmd[m].kind = "TranslateTo" /\ Len(calls[m]) >= 2) =>
            /\ DetectedLanguage(calls[m][1].resp.body) # None
            /\ calls[m][2].op = "translate"
            /\ calls[m][2].args =
                  << DetectedLanguage(calls[m][1].resp.body)[1],
                     CodeOf(cmd[m].language), cmd[m].text >>
            /\ from_lang[m] = DetectedLanguage(calls[m][1].resp.body)[1]

C15_Witness ==
    \E m \in Msgs :
        /\ cmd[m] = Cmd("TranslateTo", "", "xx", "hello")
        /\ "fr" \in DOMAIN Directory
        /\ "xx" \notin DOMAIN Directory
        /\ Len(calls[m]) = 2
        /\ calls[m][2].args = << "fr", "xx", "hello" >>
        /\ pc[m] = "done"

\* What handling command c alone in chat ch gives, from the directory and
\* the responses rs the backend gave to its calls in order: the arguments of
\* its calls and the messages it sends.
FailedExchange(r) == r.net = "fail" \/ r.body.t = "notjson"

AloneArgs(c, rs) ==
    CASE c.kind = "DetectLanguage" -> << << c.text >> >>
      [] c.kind = "TranslateFromTo" ->
            << << CodeOf(c.from_language), CodeOf(c.language), c.text >> >>
      [] c.kind = "TranslateTo" ->
            IF Len(rs) >= 1 /\ ~FailedExchange(rs[1])
                            /\ DetectedLanguage(rs[1].body) # None
            THEN << << c.text >>,
                    << DetectedLanguage(rs[1].body)[1], CodeOf(c.language), c.text >> >>
            ELSE << << c.text >> >>
      [] OTHER -> << >>

Message(ch, text) == << [chat |-> ch, text |-> text] >>

AloneTranslated(ch, r) ==
    IF FailedExchange(r) THEN Message(ch, "Internal error")
    ELSE IF TranslatedText(r.body) = None THEN Message(ch, "<error>")
    ELSE Message(ch, TranslatedText(r.body)[1])

AloneSent(c, ch, rs) ==
    CASE c.kind = "Help" -> { Message(ch, descriptions) }
      [] c.kind = "Languages" ->
            { Message(ch, "[" \o l \o "]") : l \in Listings(DOMAIN Directory) }
      [] c.kind = "DetectLanguage" ->
            IF FailedExchange(rs[1]) THEN { Message(ch, "Internal error") }
            ELSE IF DetectedLanguage(rs[1].body) = None THEN { << >> }
            ELSE { Message(ch, DetectedLanguage(rs[1].body)[1]) }
      [] c.kind = "TranslateTo" ->
            IF FailedExchange(rs[1]) THEN { Message(ch, "Internal error") }
            ELSE IF DetectedLanguage(rs[1].body) = None THEN { << >> }
            ELSE { AloneTranslated(ch, rs[2]) }
      [] c.kind = "TranslateFromTo" -> { AloneTranslated(ch, rs[1]) }

Responses(m) == [i \in CallIds(m) |-> calls[m][i].resp]

\* C16: under every interleaving, the calls a command makes and the reply
\* it gives are those of handling it alone with the same directory and the
\* same backend responses, and within a command every call is issued after
\* the one before it returned and the reply comes after the last call
\* returned.
C16_AsIfAlone ==
    \A m \in Msgs : pc[m] # "idle" =>
        /\ [i \in CallIds(m) |-> calls[m][i].args]
              = AloneArgs(cmd[m], Responses(m))
        /\ \A i \in CallIds(m) : i < Len(calls[m]) => Completed(calls[m][i])
        /\ Len(sent[m]) >= 1 => \A i \in CallIds(m) : Completed(calls[m][i])
        /\ pc[m] = "detect" =>
              Len(calls[m]) = 1 /\ calls[m][1].op = "detect"
        /\ pc[m] = "translate" =>
              calls[m][Len(calls[m])].op = "translate"
        /\ Ended(m) => sent[m] \in AloneSent(cmd[m], chat_id(m), Responses(m))

C16_Witness ==
    \E m, n \in Msgs :
        /\ cmd[m].kind = "TranslateTo" /\ pc[m] = "translate"
        /\ cmd[n].kind = "TranslateTo" /\ pc[n] = "detect"
        /\ to_lang[m] # to_lang[n]
        /\ cmd[m].language = "Spanish" /\ to_lang[m] = "es"

\* C17: every message a handler sends goes to the chat its command came
\* from.
C17_ReplyToOriginatingChat ==
    \A m \in Msgs :
        /\ pc[m] # "idle" => msg[m] = chat_id(m)
        /\ \A i \in 1..Len(sent[m]) : sent[m][i].chat = chat_id(m)

C17_Witness ==
    \E m, n \in Msgs :
        /\ chat_id(m) # chat_id(n)
        /\ sent[m] = Message(chat_id(m), "Internal error")
        /\ sent[n] = Message(chat_id(n), "<error>")

\* C18: a translate call whose exchange completed with a body that is JSON
\* returns the string at data.translations[0].translatedText, or "<error>"
\* when there is none, and the reply of its command is that text, never
\* "Internal error".
C18_TranslateNeverFailsOnShape ==
    \A m \in Msgs : \A i \in CallIds(m) :
        (calls[m][i].op = "translate" /\ ParsedJson(calls[m][i])) =>
            LET text == TranslatedText(calls[m][i].resp.body)
                expected == IF text = None THEN "<error>" ELSE text[1]
            IN /\ calls[m][i].result = [kind |-> "Ok", val |-> expected]
               /\ pc[m] = "done"
               /\ Len(sent[m]) = 1
               /\ sent[m][1].text = expected
               /\ sent[m][1].text # "Internal error"

C18_Witness ==
    \E m, n \in Msgs :
        /\ cmd[m].kind = "TranslateFromTo" /\ pc[m] = "done"
        /\ calls[m][1].resp.status = 401
        /\ Key(calls[m][1].resp.body, "data") = JNull
        /\ sent[m][1].text = "<error>"
        /\ cmd[n].kind = "TranslateTo" /\ pc[n] = "done"
        /\ Len(calls[n]) = 2
        /\ ParsedJson(calls[n][2])
        /\ Key(Key(calls[n][2].resp.body, "data"), "translations")
              = JArr(<< >>)
        /\ sent[n][1].text = "<error>"
====
